---------------------------- MODULE Spec2Model ----------------------------
(***************************************************************************)
(* Model of the Derenzo phantom generator (phantom.py, derenzo_log.py).    *)
(*                                                                         *)
(* Lengths are exact.  Every length is held as an integer number of        *)
(* 1/LenScale length units, and a coordinate is a number a + b*sqrt(3)     *)
(* with integer a and b held as the pair (a, b): the lattice uses the row  *)
(* height well_sep*sqrt(3) and the rotations are by multiples of 60        *)
(* degrees (cos = C/2, sin = S*sqrt(3)/2), so every coordinate the program *)
(* computes is of this form.  Floating-point rounding is not modelled.     *)
(*                                                                         *)
(* Two specifications:                                                     *)
(*   SecSpec  a standalone DerenzoSection and its apply_rotation method;   *)
(*   Spec     a DerenzoPhantom: construction, export_to_G4gps_macro,       *)
(*            to_image.                                                    *)
(***************************************************************************)
EXTENDS Integers, Sequences, FiniteSets

VARIABLES sec, phantom, file, result

vars == <<sec, phantom, file, result>>

---------------------------------------------------------------------------
(* Program constants *)

\* DerenzoPhantom._num_sections
NumSections == 6

\* section_offset=0.1 : the buffer is R / SectionOffsetDen
SectionOffsetDen == 10

\* one length unit = LenScale model units: tenths for section_offset = 0.1*R,
\* halves for r = well_sep/2 and for cos 60 = 1/2
LenScale == 2 * SectionOffsetDen

\* the docstring's example phantom: radius = 50.0, first feature size 10.0
ExampleRadius == 50
ExampleFeature == 10
\* derenzo_log.py's example depth: cyl_height = 10.0
ExampleDepth == 10

(* Bounds of the model *)

\* standalone sections: radius in 1..MaxSecRadius, feature size in 1..MaxSecFeature
MaxSecRadius == 12
MaxSecFeature == 3
\* two wide sections of feature size 1: radius BigRadius, whose last row
\* reaches past the radius, and a radius 3 less, where it does not
BigRadius == 142

\* phantoms: radius in 1..MaxRadius
MaxRadius == 8
\* num_events in 0..MaxEvents
MaxEvents == 3
\* img_side in 1..MaxSide
MaxSide == 1

---------------------------------------------------------------------------
(* Exact arithmetic with sqrt(3) *)

RECURSIVE LeqSqrt3(_, _), GeqSqrt3(_, _)
\* a*sqrt(3) <= b, for a >= 0 (exact: 1 < sqrt(3) < 2, then
\* a*sqrt(3) <= a + r  <=>  2a - r <= r*sqrt(3))
LeqSqrt3(a, b) ==
    IF a = 0 THEN b >= 0
    ELSE IF b < a THEN FALSE
    ELSE IF b >= 2 * a THEN TRUE
    ELSE GeqSqrt3(b - a, 2 * a - (b - a))

\* a*sqrt(3) >= b, for a >= 0
GeqSqrt3(a, b) ==
    IF a = 0 THEN b <= 0
    ELSE IF b <= a THEN TRUE
    ELSE IF b >= 2 * a THEN FALSE
    ELSE LeqSqrt3(b - a, 2 * a - (b - a))

\* p + q*sqrt(3) <= d, any integers
SurdLeq(p, q, d) ==
    IF q >= 0 THEN LeqSqrt3(q, d - p) ELSE GeqSqrt3(-q, p - d)

\* p + q*sqrt(3) >= d, any integers
SurdGeq(p, q, d) ==
    IF q >= 0 THEN GeqSqrt3(q, d - p) ELSE LeqSqrt3(-q, p - d)

\* int(np.floor(h / (w * sqrt(3)))), w > 0
FloorDivSqrt3(h, w) ==
    IF h >= 0
    THEN CHOOSE n \in 0..(h \div w) :
             /\ 3 * (n * w) * (n * w) <= h * h
             /\ 3 * ((n + 1) * w) * ((n + 1) * w) > h * h
    ELSE - (CHOOSE m \in 1..(((-h) \div w) + 1) :
             /\ 3 * (m * w) * (m * w) >= h * h
             /\ 3 * ((m - 1) * w) * ((m - 1) * w) < h * h)

\* a point (x, y) = (xa + xb*sqrt(3), ya + yb*sqrt(3))
Point(xa, xb, ya, yb) == [xa |-> xa, xb |-> xb, ya |-> ya, yb |-> yb]

\* squared distance between two points, as P + Q*sqrt(3)
Dist2(p, q) ==
    LET dxa == p.xa - q.xa
        dxb == p.xb - q.xb
        dya == p.ya - q.ya
        dyb == p.yb - q.yb
    IN  [P |-> dxa * dxa + 3 * dxb * dxb + dya * dya + 3 * dyb * dyb,
         Q |-> 2 * (dxa * dxb + dya * dyb)]

Origin == Point(0, 0, 0, 0)

---------------------------------------------------------------------------
(* DerenzoSection *)

\* row_height = well_sep * sqrt(3): the coefficient of sqrt(3)
row_height(s) == s.well_sep

num_rows(s) ==
    LET h_section == s.R - (2 * s.section_offset + s.well_sep)
    IN  FloorDivSqrt3(h_section, row_height(s))

RECURSIVE SumArange(_)
\* np.sum(1 + np.arange(n)): 1 + 2 + ... + n, and 0 for n <= 0
SumArange(n) == IF n <= 0 THEN 0 ELSE n + SumArange(n - 1)

\* a variant that sums np.arange(num_rows) without the 1 +
num_wells_no_shift(s) == SumArange(num_rows(s) - 1)

num_wells(s) == SumArange(num_rows(s))

\* well_area = pi * r**2: the coefficient of pi
well_area(s) == s.r * s.r

total_area(s) == num_wells(s) * well_area(s)

\* a variant that steps the wells of a row by the well radius
RowLocs_by_radius(s, rn) ==
    [j \in 1..rn |->
        Point((-rn + 2 * (j - 1) + 1) * s.r, 0,
              -s.section_offset, -(s.well_sep * rn))]

\* the wells of row rn: x in np.arange(-rn, rn, 2) + 1, times well_sep
RowLocs(s, rn) ==
    [j \in 1..rn |->
        Point((-rn + 2 * (j - 1) + 1) * s.well_sep, 0,
              -s.section_offset, -(row_height(s) * rn))]

RECURSIVE PlaceRows(_, _)
\* the rows 1..n in order (for i in range(num_rows))
PlaceRows(s, n) ==
    IF n <= 0 THEN <<>> ELSE PlaceRows(s, n - 1) \o RowLocs(s, n)

\* a variant that never drops the clearance
place_wells_no_fallback(s) ==
    [s EXCEPT !.locs = PlaceRows(s, num_rows(s))]

\* a variant that drops the clearance only when exactly one row fits
\* (the test of derenzo_log.place_wells_in_section)
place_wells_if_one_row(s) ==
    LET s1 == IF num_rows(s) = 1 THEN [s EXCEPT !.section_offset = 0] ELSE s
    IN  [s1 EXCEPT !.locs = PlaceRows(s1, num_rows(s1))]

place_wells_in_section(s) ==
    LET s1 == IF num_rows(s) <= 1 THEN [s EXCEPT !.section_offset = 0] ELSE s
    IN  [s1 EXCEPT !.locs = PlaceRows(s1, num_rows(s1))]

\* DerenzoSection(phantom_radius, well_separation), section_offset = 0.1
DerenzoSection(phantom_radius, well_separation) ==
    LET s0 == [R              |-> phantom_radius,
               well_sep       |-> well_separation,
               r              |-> well_separation \div 2,
               section_offset |-> phantom_radius \div SectionOffsetDen,
               locs           |-> <<>>,
               label_xy       |-> Origin,
               rot_angle      |-> <<>>]
        s1 == place_wells_in_section(s0)
    IN  [s1 EXCEPT !.label_xy =
             Point(0, 0, -(11 * (phantom_radius \div SectionOffsetDen)), 0)]

\* the rotation angles used: multiples of 60 degrees
RotAngles == {k * (360 \div NumSections) : k \in 0..(NumSections - 1)}

\* 2*cos(th) and 2*sin(th)/sqrt(3) for th = -deg degrees
Cos2(deg) ==
    CASE deg = 0 -> 2 [] deg = 60 -> 1 [] deg = 120 -> -1
      [] deg = 180 -> -2 [] deg = 240 -> -1 [] deg = 300 -> 1

Sin2(deg) ==
    CASE deg = 0 -> 0 [] deg = 60 -> -1 [] deg = 120 -> -1
      [] deg = 180 -> 0 [] deg = 240 -> 1 [] deg = 300 -> 1

\* np.dot(l, rot_mat), rot_mat = ((cos, -sin), (sin, cos)):
\* x' = x cos + y sin, y' = -x sin + y cos
RotatePoint(l, deg) ==
    LET C == Cos2(deg)
        S == Sin2(deg)
    IN  Point((C * l.xa + 3 * S * l.yb) \div 2, (C * l.xb + S * l.ya) \div 2,
              (C * l.ya - 3 * S * l.xb) \div 2, (C * l.yb - S * l.xa) \div 2)

apply_rotation(s, deg) ==
    [s EXCEPT !.rot_angle = <<deg>>,
              !.locs = [i \in DOMAIN s.locs |-> RotatePoint(s.locs[i], deg)],
              !.label_xy = RotatePoint(s.label_xy, deg)]

---------------------------------------------------------------------------
(* Standalone section: SecSpec *)

NoSection == <<>>
NoPhantom == [exists |-> FALSE, radius |-> 0, well_seps |-> <<>>, depth |-> 0,
              sections |-> <<>>]
NoFile == [exists |-> FALSE, blocks |-> <<>>]

Call(op, outcome, event_mode, num_events, shape) ==
    [op |-> op, outcome |-> outcome, event_mode |-> event_mode,
     num_events |-> num_events, shape |-> shape]

NoCall == Call("none", "ok", "", 0, <<>>)

\* the (radius, feature size) pairs a standalone section is built from
SecInputs ==
    ((1..MaxSecRadius) \X (1..MaxSecFeature))
        \cup {<<ExampleRadius, ExampleFeature>>,
              <<BigRadius - 3, 1>>, <<BigRadius, 1>>}

SecInit ==
    /\ \E inp \in SecInputs :
          sec = <<DerenzoSection(LenScale * inp[1], LenScale * inp[2])>>
    /\ phantom = NoPhantom
    /\ file = NoFile
    /\ result = NoCall

SecApplyRotation(deg) ==
    /\ sec # NoSection
    /\ sec' = <<apply_rotation(sec[1], deg)>>
    /\ UNCHANGED <<phantom, file, result>>

SecNext == \E deg \in RotAngles : SecApplyRotation(deg)

SecSpec == SecInit /\ [][SecNext]_vars

---------------------------------------------------------------------------
(* DerenzoPhantom *)

Min(a, b) == IF a <= b THEN a ELSE b

\* zip(well_seps, np.arange(0, 360., 360. / 6)): one section per pair, the
\* longer of the two sequences is cut
DerenzoPhantom(radius, well_separations, cyl_height) ==
    [exists    |-> TRUE,
     radius    |-> radius,
     well_seps |-> well_separations,
     depth     |-> cyl_height,
     sections  |->
        [i \in 1..Min(Len(well_separations), NumSections) |->
            apply_rotation(DerenzoSection(radius, well_separations[i]),
                           (i - 1) * (360 \div NumSections))]]

RECURSIVE AreaUpTo(_, _)
\* the sum of total_area over the first n sections
AreaUpTo(sections, n) ==
    IF n <= 0 THEN 0 ELSE total_area(sections[n]) + AreaUpTo(sections, n - 1)

\* DerenzoPhantom.area (the coefficient of pi)
area(ph) == AreaUpTo(ph.sections, Len(ph.sections))

RECURSIVE WellsUpTo(_, _)
\* the sum of num_wells over the first n sections
WellsUpTo(sections, n) ==
    IF n <= 0 THEN 0 ELSE num_wells(sections[n]) + WellsUpTo(sections, n - 1)

\* DerenzoPhantom.num_wells
phantom_num_wells(ph) == WellsUpTo(ph.sections, Len(ph.sections))

---------------------------------------------------------------------------
(* derenzo_log.export_to_G4mac *)

None == <<>>
Some(v) == <<v>>

\* '%i' % num_evs for a finite num_evs = num / den >= 0: the fraction is cut
FormatInt(ne) == ne.num \div ne.den

\* the block written for one well; halfz is None or Some(depth)
export_to_G4mac(x, y, z, r, energy, num_evs, halfz) ==
    [particle |-> "gamma",
     pos_type |-> IF halfz = None THEN "Plane" ELSE "Volume",
     shape    |-> IF halfz = None THEN "Circle" ELSE "Cylinder",
     centre   |-> <<x, y, z>>,
     radius   |-> r,
     halfz    |-> halfz,
     ang_type |-> "iso",
     ene_type |-> "Mono",
     ene_mono |-> energy,
     beamOn   |-> FormatInt(num_evs)]

---------------------------------------------------------------------------
(* DerenzoPhantom.export_to_G4gps_macro *)

ExportModes == {"equal_activity", "equal_counts", "subsection_area"}
ImageModes == {"equal_activity", "equal_counts"}
\* the mode strings a caller passes: the recognized ones and another
EventModes == ExportModes \cup {"poisson"}

\* a variant whose equal_counts divides by the section's own well count
EventsPerWell_by_section(ph_area, ph_num_wells, section, num_events, event_mode) ==
    CASE event_mode = "equal_activity" ->
            [num |-> num_events * well_area(section), den |-> ph_area]
      [] event_mode = "equal_counts" ->
            [num |-> num_events, den |-> num_wells(section)]
      [] event_mode = "subsection_area" ->
            [num |-> num_events * total_area(section), den |-> ph_area]

\* ne for one section, as the fraction num / den (den = 0: inf or nan);
\* ph_area and ph_num_wells are self.area and self.num_wells
EventsPerWell(ph_area, ph_num_wells, section, num_events, event_mode) ==
    CASE event_mode = "equal_activity" ->
            [num |-> num_events * well_area(section), den |-> ph_area]
      [] event_mode = "equal_counts" ->
            [num |-> num_events, den |-> ph_num_wells]
      [] event_mode = "subsection_area" ->
            [num |-> num_events * total_area(section), den |-> ph_area]

\* for xy in section.locs: export_to_G4mac(fh, xy[0], xy[1], 0, section.r, ...)
SectionBlocks(section, gamma_en, ne, depth) ==
    [k \in DOMAIN section.locs |->
        export_to_G4mac([a |-> section.locs[k].xa, b |-> section.locs[k].xb],
                        [a |-> section.locs[k].ya, b |-> section.locs[k].yb],
                        0, section.r, gamma_en, ne, Some(depth))]

RECURSIVE ExportLoop(_, _, _, _, _, _, _, _)
\* the loop over the sections from section i on, the blocks written so far in
\* acc; a raise leaves the loop with what was written.  self.area and
\* self.num_wells are read in every iteration and are the same in each.
ExportLoop(ph, ph_area, ph_num_wells, i, num_events, gamma_en, event_mode, acc) ==
    IF i > Len(ph.sections) THEN [blocks |-> acc, outcome |-> "ok"]
    ELSE IF event_mode \notin ExportModes
         THEN [blocks |-> acc, outcome |-> "ValueError"]
    ELSE LET section == ph.sections[i]
             ne == EventsPerWell(ph_area, ph_num_wells, section, num_events,
                                 event_mode)
         IN  IF Len(section.locs) > 0 /\ ne.den = 0
             THEN [blocks |-> acc, outcome |-> "OverflowError"]
             ELSE ExportLoop(ph, ph_area, ph_num_wells, i + 1, num_events,
                             gamma_en, event_mode,
                             acc \o SectionBlocks(section, gamma_en, ne, ph.depth))

\* open(fname, 'w') creates or empties the file, then the loop writes
export_to_G4gps_macro(ph, num_events, gamma_en, event_mode) ==
    LET ph_area == area(ph)
        ph_num_wells == phantom_num_wells(ph)
    IN  ExportLoop(ph, ph_area, ph_num_wells, 1, num_events, gamma_en,
                   event_mode, <<>>)

---------------------------------------------------------------------------
(* DerenzoPhantom.to_image *)

\* self.mm_to_px is a property: reading the attribute calls
\* mm_to_px(self) without xy, shp and radius
mm_to_px(ph) == "TypeError"

\* the outcome of to_image and the shape of the array it returns
to_image(ph, img_side, num_events, event_mode) ==
    IF event_mode \notin ImageModes
    THEN [outcome |-> "ValueError", shape |-> <<>>]
    ELSE IF Len(ph.sections) > 0
         THEN [outcome |-> mm_to_px(ph), shape |-> <<>>]
         ELSE [outcome |-> "ok", shape |-> <<img_side, img_side>>]

---------------------------------------------------------------------------
(* Phantom: Spec *)

\* the feature sizes of a phantom: a coarse and a fine one
FeatureSizes == {1, 2}

\* the depths of a phantom: none (the default) and one
Depths == {0, ExampleDepth}

RECURSIVE NonIncreasing(_, _)
\* the non-increasing sequences of length n over the set S
NonIncreasing(n, S) ==
    IF n = 0 THEN {<<>>}
    ELSE UNION {{<<f>> \o q : q \in NonIncreasing(n - 1, {g \in S : g <= f})} :
                   f \in S}

\* the feature-size sequences passed to the constructor, largest first:
\* one short of, equal to and one more than the six sections
WellSepInputs ==
    UNION {NonIncreasing(n, FeatureSizes) :
              n \in (NumSections - 1)..(NumSections + 1)}

Energies == {662}
\* to_image is called with its default num_events=1.
ImageEvents == {1}

Init ==
    /\ sec = NoSection
    /\ phantom = NoPhantom
    /\ file = NoFile
    /\ result = NoCall

Construct(radius, well_seps, cyl_height) ==
    /\ ~phantom.exists
    /\ phantom' = DerenzoPhantom(LenScale * radius,
                                 [i \in DOMAIN well_seps |-> LenScale * well_seps[i]],
                                 LenScale * cyl_height)
    /\ result' = Call("construct", "ok", "", 0, <<>>)
    /\ UNCHANGED <<sec, file>>

Export(num_events, gamma_en, event_mode) ==
    /\ phantom.exists
    /\ LET out == export_to_G4gps_macro(phantom, num_events, gamma_en, event_mode)
       IN  /\ file' = [exists |-> TRUE, blocks |-> out.blocks]
           /\ result' = Call("export", out.outcome, event_mode, num_events, <<>>)
    /\ UNCHANGED <<sec, phantom>>

ToImage(img_side, num_events, event_mode) ==
    /\ phantom.exists
    /\ LET out == to_image(phantom, img_side, num_events, event_mode)
       IN  result' = Call("to_image", out.outcome, event_mode, num_events, out.shape)
    /\ UNCHANGED <<sec, phantom, file>>

Next ==
    \/ \E radius \in 1..MaxRadius, well_seps \in WellSepInputs,
          cyl_height \in Depths :
          Construct(radius, well_seps, cyl_height)
    \/ \E num_events \in 0..MaxEvents, gamma_en \in Energies,
          event_mode \in EventModes :
          Export(num_events, gamma_en, event_mode)
    \/ \E img_side \in 1..MaxSide, num_events \in ImageEvents,
          event_mode \in EventModes :
          ToImage(img_side, num_events, event_mode)

Spec == Init /\ [][Next]_vars

---------------------------------------------------------------------------
(* Properties *)

\* the triangular number n(n+1)/2
Tri(n) == (n * (n + 1)) \div 2

\* the row of the i-th well of a section (rows are stored in order)
RowOf(i) == CHOOSE rn \in 1..i : Tri(rn - 1) < i /\ i <= Tri(rn)

\* the well centre p of section s lies within distance s.R of the origin
WithinRadius(s, p) ==
    LET d == Dist2(p, Origin) IN SurdLeq(d.P, d.Q, s.R * s.R)

AllWithinRadius(s) == \A i \in DOMAIN s.locs : WithinRadius(s, s.locs[i])

\* R >= (1 + sqrt(3)) * f
FitsOneRow(s) == LeqSqrt3(s.well_sep, s.R - s.well_sep)

\* the sum of the /run/beamOn counts of a sequence of blocks
RECURSIVE SumBeamOn(_, _)
SumBeamOn(blocks, n) ==
    IF n <= 0 THEN 0 ELSE blocks[n].beamOn + SumBeamOn(blocks, n - 1)

EmittedEvents == SumBeamOn(file.blocks, Len(file.blocks))

Abs(x) == IF x >= 0 THEN x ELSE -x

\* In section s every well has another well at distance exactly d and none
\* nearer; consecutive wells of a row are d apart; before rotation each row
\* is symmetric about x = 0.
NearestNeighbourIs(s, d) ==
    /\ \A i \in DOMAIN s.locs :
          /\ \E j \in DOMAIN s.locs :
                j # i /\ Dist2(s.locs[i], s.locs[j]) = [P |-> d * d, Q |-> 0]
          /\ \A j \in DOMAIN s.locs :
                j # i => LET dd == Dist2(s.locs[i], s.locs[j])
                         IN  SurdGeq(dd.P, dd.Q, d * d)
    /\ \A i \in 1..(Len(s.locs) - 1) :
          RowOf(i) = RowOf(i + 1) =>
              Dist2(s.locs[i], s.locs[i + 1]) = [P |-> d * d, Q |-> 0]
    /\ s.rot_angle = <<0>> =>
          \A i \in DOMAIN s.locs : \E j \in DOMAIN s.locs :
              /\ RowOf(j) = RowOf(i)
              /\ s.locs[j] = [s.locs[i] EXCEPT !.xa = -s.locs[i].xa,
                                               !.xb = -s.locs[i].xb]

\* Every rotation divides even numbers by 2: the stored coordinates are exact.
RotationExact ==
    LET Even(p, deg) ==
            /\ (Cos2(deg) * p.xa + 3 * Sin2(deg) * p.yb) % 2 = 0
            /\ (Cos2(deg) * p.xb + Sin2(deg) * p.ya) % 2 = 0
            /\ (Cos2(deg) * p.ya - 3 * Sin2(deg) * p.xb) % 2 = 0
            /\ (Cos2(deg) * p.yb - Sin2(deg) * p.xa) % 2 = 0
        Exact(s) == \A deg \in RotAngles :
                       /\ Even(s.label_xy, deg)
                       /\ \A i \in DOMAIN s.locs : Even(s.locs[i], deg)
    IN  /\ sec # NoSection => Exact(sec[1])
        /\ \A i \in DOMAIN phantom.sections :
              /\ Exact(phantom.sections[i])
              /\ Exact(DerenzoSection(phantom.sections[i].R,
                                      phantom.sections[i].well_sep))

\* DerenzoPhantom.num_wells is the number of wells of all its sections, and
\* each section of a phantom reports the number of wells it holds.
PhantomWellCount ==
    /\ \A i \in DOMAIN phantom.sections :
          LET s == phantom.sections[i]
          IN  num_wells(s) = Tri(num_rows(s)) /\ num_wells(s) = Len(s.locs)
    /\ phantom_num_wells(phantom) =
          Cardinality(UNION {{<<i, k>> : k \in DOMAIN phantom.sections[i].locs} :
                                i \in DOMAIN phantom.sections})

(* C1, as claimed.  A phantom is constructed only from a feature-size
   sequence of exactly 6 elements, and every constructed phantom has exactly
   6 sections. *)
C1_SixSections ==
    phantom.exists =>
        /\ Len(phantom.well_seps) = NumSections
        /\ Len(phantom.sections) = NumSections

(* C2, as claimed.  An export called with an event_mode that is not
   recognized fails with ValueError and leaves the file as it was before the
   call: not created, not emptied, not partly written. *)
C2_FailedExportKeepsFile ==
    [][(result'.op = "export" /\ result'.event_mode \notin ExportModes)
          => (result'.outcome = "ValueError" /\ file' = file)]_vars

(* C3, as claimed.  After an export, every block of a phantom of depth 0 is a
   Plane / Circle block without a halfz line, and every block of a phantom
   of depth > 0 is a Volume / Cylinder block whose halfz line carries the
   depth. *)
C3_PlaneOrVolume ==
    (result.op = "export" /\ result.outcome = "ok") =>
        \A k \in DOMAIN file.blocks :
            LET b == file.blocks[k]
            IN  IF phantom.depth = 0
                THEN b.pos_type = "Plane" /\ b.shape = "Circle" /\ b.halfz = None
                ELSE /\ b.pos_type = "Volume" /\ b.shape = "Cylinder"
                     /\ b.halfz = Some(phantom.depth)

C3_DepthZeroExported ==
    /\ result.op = "export" /\ result.outcome = "ok"
    /\ phantom.depth = 0
    /\ Len(file.blocks) > 0

C4_FarWell ==
    /\ sec # NoSection
    /\ num_rows(sec[1]) > 63
    /\ ~AllWithinRadius(sec[1])

(* C5.  In every section, after placement (with or without the fallback) and
   after any number of rotations, num_wells is the triangular number
   n(n+1)/2 of n = num_rows and is the number of entries of locs. *)
C5_WellCount ==
    sec # NoSection =>
        LET s == sec[1]
            n == num_rows(s)
        IN  /\ num_wells(s) = Tri(n)
            /\ num_wells(s) = Len(s.locs)

\* a section placed by the fallback, holding 3 wells, after a rotation
C5_Witness ==
    /\ sec # NoSection
    /\ sec[1].rot_angle # <<>>
    /\ sec[1].section_offset = 0
    /\ num_rows(sec[1]) = 2
    /\ Len(sec[1].locs) = 3

(* C6, as claimed.  After an equal_counts export the sum of the beamOn counts
   differs from num_events by at most the number of wells of the phantom. *)
C6_Original ==
    (result.op = "export" /\ result.event_mode = "equal_counts") =>
        Abs(EmittedEvents - result.num_events) <= phantom_num_wells(phantom)

(* C6, amended.  After an equal_counts export of a phantom with at least one
   well, the export succeeded and the sum of the beamOn counts differs from
   num_events by at most the number of wells of the phantom. *)
C6_EqualCountsSum ==
    (/\ result.op = "export"
     /\ result.event_mode = "equal_counts"
     /\ phantom_num_wells(phantom) >= 1) =>
        /\ result.outcome = "ok"
        /\ Len(file.blocks) = phantom_num_wells(phantom)
        /\ Abs(EmittedEvents - result.num_events) <= phantom_num_wells(phantom)

\* an equal_counts export whose counts are cut: 0 < sum < num_events
C6_Witness ==
    /\ result.op = "export"
    /\ result.event_mode = "equal_counts"
    /\ phantom_num_wells(phantom) >= 2
    /\ EmittedEvents > 0
    /\ EmittedEvents < result.num_events

(* C7, as claimed.  In every section the nearest-neighbour wells are f apart
   centre to centre, f the feature size: the wells of a row are evenly
   spaced by f, symmetric about x = 0. *)
C7_Original ==
    \A i \in DOMAIN phantom.sections :
        LET s == phantom.sections[i]
        IN  Len(s.locs) >= 2 => NearestNeighbourIs(s, s.well_sep)

(* C7, amended.  In every section the nearest-neighbour wells are 2f apart
   centre to centre, f the feature size and well diameter: the wells of a
   row are evenly spaced by 2f, symmetric about x = 0. *)
C7_SpacingTwiceFeature ==
    \A i \in DOMAIN phantom.sections :
        LET s == phantom.sections[i]
        IN  /\ 2 * s.r = s.well_sep
            /\ Len(s.locs) >= 2 => NearestNeighbourIs(s, 2 * s.well_sep)

\* a phantom with a rotated two-row section that kept its clearance
C7_Witness ==
    \E i \in DOMAIN phantom.sections :
        /\ Len(phantom.sections[i].locs) = 3
        /\ phantom.sections[i].section_offset > 0
        /\ phantom.sections[i].rot_angle = <<60>>

(* C8, as claimed.  to_image with a recognized event_mode, on a phantom with
   at least one well, completes and returns a side x side array. *)
C8_ToImageReturns ==
    (/\ result.op = "to_image"
     /\ result.event_mode \in ImageModes
     /\ phantom_num_wells(phantom) >= 1) =>
        /\ result.outcome = "ok"
        /\ Len(result.shape) = 2
        /\ result.shape[1] = result.shape[2]

(* C9.  With n0 = floor((R - 2cR - f) / (f sqrt(3))), c = 0.10: if n0 >= 2
   the section has n0 rows and row n lies at y = -(cR + f sqrt(3) n);
   otherwise it has floor((R - f) / (f sqrt(3))) rows and row n lies at
   y = -(f sqrt(3) n).  R = 50, f = 10 gives n0 = 1, 2 rows and 3 wells. *)
C9_FallbackRule ==
    sec # NoSection =>
        LET s    == sec[1]
            R    == s.R
            f    == s.well_sep
            cR   == R \div SectionOffsetDen
            n0   == FloorDivSqrt3(R - 2 * cR - f, f)
            rows == IF n0 >= 2 THEN n0 ELSE FloorDivSqrt3(R - f, f)
            off  == IF n0 >= 2 THEN cR ELSE 0
        IN  /\ num_rows(s) = rows
            /\ Len(s.locs) = (IF rows >= 1 THEN Tri(rows) ELSE 0)
            /\ s.rot_angle = <<>> =>
                  \A i \in DOMAIN s.locs :
                      /\ s.locs[i].ya = -off
                      /\ s.locs[i].yb = -(f * RowOf(i))
            /\ (R = LenScale * ExampleRadius /\ f = LenScale * ExampleFeature) =>
                  (n0 = 1 /\ num_rows(s) = 2 /\ Len(s.locs) = 3)

\* the example section R = 50, f = 10, as placed
C9_Witness ==
    /\ sec # NoSection
    /\ sec[1].R = LenScale * ExampleRadius
    /\ sec[1].well_sep = LenScale * ExampleFeature
    /\ sec[1].rot_angle = <<>>
    /\ sec[1].section_offset = 0
    /\ Len(sec[1].locs) = 3

(* C10, as claimed.  After an export under a recognized policy of a phantom
   with at least one well, the sum of the beamOn counts of the blocks does
   not exceed num_events. *)
C10_BudgetConserved ==
    (/\ result.op = "export"
     /\ result.event_mode \in ExportModes
     /\ phantom_num_wells(phantom) >= 1) =>
        EmittedEvents <= result.num_events

=============================================================================
